---- MODULE Spec2Model ----
(***************************************************************************)
(* Model of src/main.rs: Bitmap::put_string, Data::push_bitmap,            *)
(* Data::to_bytes and the chunked transmission loop of main.               *)
(*                                                                         *)
(* Bytes are naturals 0..255, a Vec<u8> is a sequence of bytes, a string   *)
(* is a sequence of characters.                                            *)
(***************************************************************************)
EXTENDS Integers, Sequences, FiniteSets, TLC

VARIABLES
    bitmaps,      \* Data.bitmaps : sequence of Bitmap records
    inputs,       \* history: the arguments each bitmap was built from
    pc,           \* position of main: "build", "send", "done", "panicked"
    data_bytes,   \* main's data_bytes: the Vec<u8> returned by to_bytes
    counted,      \* to_bytes's local data_bytes (u8) when to_bytes returns
    panic_at,     \* where to_bytes panicked ("none" when it did not)
    i,            \* index of the enumerate() of the transmission loop
    inflight,     \* number of peripheral.write calls not yet returned
    write_result, \* outcome of the latest write: "none", "pending", "ok", "err"
    attempted,    \* chunk indices handed to peripheral.write, in order
    any_err,      \* history: some write of this transmission has failed
    sent          \* concatenation of the chunks handed to peripheral.write

vars == <<bitmaps, inputs, pc, data_bytes, counted, panic_at, i, inflight,
          write_result, attempted, any_err, sent>>

----------------------------------------------------------------------------
(* Bounds of the model *)

\* longest Data.bitmaps the model builds (one more than the 8 slots)
MaxBitmaps == 9

\* longest Data.bitmaps built when whole transmissions are followed to the end
MaxSendBitmaps == 6

----------------------------------------------------------------------------
(* Program constants *)

Slots == 8          \* let mut modes = [0u8; 8]; let mut sizes = [0u16; 8]
RowGroup == 11      \* vec![0u8; 11], chunks_exact(11)
ChunkSize == 16     \* data_bytes.chunks_exact(16)
TopPad == 2         \* char_rows[row_idx + 2]

\* enum Mode, #[repr(u8)]
ScrollLeft == 0
Fixed == 4
Laser == 8

----------------------------------------------------------------------------
(* u8 arithmetic *)

RECURSIVE BitOr(_, _)
\* a | b
BitOr(a, b) ==
    IF a = 0 THEN b
    ELSE IF b = 0 THEN a
    ELSE (IF a % 2 = 1 \/ b % 2 = 1 THEN 1 ELSE 0)
         + 2 * BitOr(a \div 2, b \div 2)

\* x << n on u8 for a shift amount n < 8 (bits shifted out are lost)
Shl8(x, n) == (x * (2 ^ n)) % 256

\* x << n on u8 when overflow checks are off: the shift amount is masked
WrappingShl8(x, n) == Shl8(x, n % 8)

\* u8::checked_add: None on overflow, Some(a + b) otherwise
checked_add(a, b) ==
    IF a + b > 255 THEN [is_none |-> TRUE, value |-> 0]
    ELSE [is_none |-> FALSE, value |-> a + b]

\* a byte-order slip: least significant byte first
to_le_bytes(size) == <<size % 256, size \div 256>>

\* u16::to_be_bytes
to_be_bytes(size) == <<size \div 256, size % 256>>

\* [0; n]
Zeros(n) == [k \in 1..n |-> 0]

----------------------------------------------------------------------------
(* font::get_char_data : the glyph table, 7 row bitmasks per character *)

Chars == {"A", "B"}

get_char_data(c) ==
    IF c = "A" THEN <<24, 36, 66, 126, 66, 66, 66>>
    ELSE <<124, 66, 66, 124, 65, 67, 126>>

----------------------------------------------------------------------------
(* Bitmap::put_string *)

\* the 11-row chunk of one character: 2 rows of padding, 7 glyph rows, 2 rows
CharRows(c) ==
    [r \in 1..RowGroup |->
        IF r - 1 >= TopPad /\ r - 1 < TopPad + Len(get_char_data(c))
        THEN get_char_data(c)[r - TopPad]
        ELSE 0]

RECURSIVE PutStringLoop(_, _)
\* for c in s.chars() { ...; self.data.extend_from_slice(&char_rows) }
PutStringLoop(data, s) ==
    IF s = <<>> THEN data
    ELSE PutStringLoop(data \o CharRows(Head(s)), Tail(s))

\* a put_string that forgets to clear: the previous data stays
KeepData(data) == data

\* self.data.clear()
Clear(data) == <<>>

put_string(bitmap, s) ==
    [bitmap EXCEPT !.data = PutStringLoop(Clear(bitmap.data), s)]

----------------------------------------------------------------------------
(* Data::to_bytes *)

Magic == <<119, 97, 110, 103, 0, 0>>   \* b"wang\0\0"

\* an off-by-one bit position
SlotBitNext(idx) == Shl8(1, idx + 1)

\* 1 << i, as used for the flash and marquee masks (i < 8)
SlotBit(idx) == Shl8(1, idx)

\* bitmap.speed << 4 | (bitmap.mode as u8)
ModeByte(bitmap) == BitOr(Shl8(bitmap.speed, 4), bitmap.mode)

\* bitmap.data.chunks_exact(11).count() as u16
SizeEntry(bitmap) == (Len(bitmap.data) \div RowGroup) % 65536

HeaderInit ==
    [flash |-> 0, marquee |-> 0,
     modes |-> [k \in 1..Slots |-> 0],
     sizes |-> [k \in 1..Slots |-> 0],
     panic |-> "none"]

RECURSIVE HeaderLoop(_, _, _, _)
\* for (i, bitmap) in self.bitmaps.iter().enumerate() { ... }
\* checks: whether the build has overflow checks on (1 << i panics for i >= 8)
\* or off (the shift amount wraps); modes[i] panics for i >= 8 in both.
HeaderLoop(bs, idx, h, checks) ==
    IF idx >= Len(bs) THEN h
    ELSE LET bitmap == bs[idx + 1]
             bit == IF idx < 8 THEN SlotBit(idx) ELSE WrappingShl8(1, idx)
         IN  IF idx >= 8 /\ checks /\ (bitmap.flash \/ bitmap.marquee)
             THEN [h EXCEPT !.panic = "shift_overflow"]
             ELSE LET flash == IF bitmap.flash
                               THEN BitOr(h.flash, bit) ELSE h.flash
                      marquee == IF bitmap.marquee
                                 THEN BitOr(h.marquee, bit) ELSE h.marquee
                  IN  IF idx >= Slots
                      THEN [h EXCEPT !.flash = flash, !.marquee = marquee,
                                     !.panic = "index_out_of_bounds"]
                      ELSE HeaderLoop(bs, idx + 1,
                              [flash |-> flash, marquee |-> marquee,
                               modes |-> [h.modes EXCEPT
                                             ![idx + 1] = ModeByte(bitmap)],
                               sizes |-> [h.sizes EXCEPT
                                             ![idx + 1] = SizeEntry(bitmap)],
                               panic |-> "none"],
                              checks)

RECURSIVE SizesBytes(_, _)
\* sizes.iter().flat_map(|size| size.to_be_bytes())
SizesBytes(sizes, k) ==
    IF k > Len(sizes) THEN <<>>
    ELSE to_be_bytes(sizes[k]) \o SizesBytes(sizes, k + 1)

\* everything to_bytes writes before the pixel data
Header(h) ==
    Magic \o <<h.flash>> \o <<h.marquee>> \o h.modes
          \o SizesBytes(h.sizes, 1)
          \o Zeros(6) \o Zeros(6) \o Zeros(4) \o Zeros(16)

\* the counter update of one chunk: on overflow the increment is skipped
CountChunk(count) ==
    LET new_data_bytes == checked_add(count, RowGroup)
    IN  IF new_data_bytes.is_none THEN count ELSE new_data_bytes.value

RECURSIVE ChunkLoop(_, _, _)
\* for chunk in bitmap_data.chunks_exact(11) { data.extend(chunk); ... }
ChunkLoop(bitmap_data, k, acc) ==
    IF (k + 1) * RowGroup > Len(bitmap_data) THEN acc
    ELSE ChunkLoop(bitmap_data, k + 1,
            [data |-> acc.data
                      \o SubSeq(bitmap_data, k * RowGroup + 1,
                                (k + 1) * RowGroup),
             data_bytes |-> CountChunk(acc.data_bytes)])

RECURSIVE PayloadLoop(_, _, _)
\* for bitmap_data in self.bitmaps.iter().map(|bitmap| &bitmap.data) { ... }
PayloadLoop(bs, k, acc) ==
    IF k > Len(bs) THEN acc
    ELSE PayloadLoop(bs, k + 1, ChunkLoop(bs[k].data, 0, acc))

\* let padding = data_bytes % 16; the number of zero bytes appended
Padding(count) == count % 16

\* the value of to_bytes: where it panicked, the bytes, the final counter
to_bytes(bs, checks) ==
    LET h == HeaderLoop(bs, 0, HeaderInit, checks)
        p == PayloadLoop(bs, 1, [data |-> Header(h), data_bytes |-> 0])
    IN  IF h.panic # "none"
        THEN [panic |-> h.panic, data |-> <<>>, data_bytes |-> 0]
        ELSE [panic |-> "none",
              data |-> p.data \o Zeros(Padding(p.data_bytes)),
              data_bytes |-> p.data_bytes]

----------------------------------------------------------------------------
(* the transmission loop of main *)

\* data_bytes.chunks_exact(16).count()
NumChunks(stream) == Len(stream) \div ChunkSize

\* the k-th (0-based) item of data_bytes.chunks_exact(16)
Chunk(stream, k) == SubSeq(stream, k * ChunkSize + 1, (k + 1) * ChunkSize)

----------------------------------------------------------------------------
(* Inputs: what a caller builds a Bitmap from *)

\* the Bitmap literal of main, and two others covering both flags, the ends
\* of the Mode and speed ranges, previous data, and string lengths 0, 1, 3
BitmapInputs ==
    { [flash |-> FALSE, marquee |-> FALSE, mode |-> Fixed, speed |-> 5,
       prev |-> <<>>, s |-> <<"A">>],
      [flash |-> TRUE, marquee |-> FALSE, mode |-> Laser, speed |-> 15,
       prev |-> <<255, 255, 255>>, s |-> <<"B", "A", "B">>],
      [flash |-> FALSE, marquee |-> TRUE, mode |-> ScrollLeft, speed |-> 0,
       prev |-> CharRows("B"), s |-> <<>>] }

\* Bitmap { flash, marquee, mode, speed, data }
NewBitmap(in) ==
    [flash |-> in.flash, marquee |-> in.marquee, mode |-> in.mode,
     speed |-> in.speed, data |-> in.prev]

----------------------------------------------------------------------------
(* State machine *)

Init ==
    /\ bitmaps = <<>>
    /\ inputs = <<>>
    /\ pc = "build"
    /\ data_bytes = <<>>
    /\ counted = 0
    /\ panic_at = "none"
    /\ i = 0
    /\ inflight = 0
    /\ write_result = "none"
    /\ attempted = <<>>
    /\ any_err = FALSE
    /\ sent = <<>>

\* let mut bitmap = Bitmap {..}; bitmap.put_string(s); data.push_bitmap(bitmap)
PushBitmap(in, limit) ==
    /\ pc = "build"
    /\ Len(bitmaps) < limit
    /\ bitmaps' = Append(bitmaps, put_string(NewBitmap(in), in.s))
    /\ inputs' = Append(inputs, in)
    /\ UNCHANGED <<pc, data_bytes, counted, panic_at, i, inflight,
                   write_result, attempted, any_err, sent>>

\* let data_bytes = data.to_bytes()?;
ToBytes(checks) ==
    /\ pc = "build"
    /\ LET r == to_bytes(bitmaps, checks)
       IN  /\ panic_at' = r.panic
           /\ data_bytes' = r.data
           /\ counted' = r.data_bytes
           /\ pc' = IF r.panic = "none" THEN "send" ELSE "panicked"
    /\ UNCHANGED <<bitmaps, inputs, i, inflight, write_result, attempted,
                   any_err, sent>>

\* peripheral.write(&characteristic, chunk, WithoutResponse) is called
WriteStart ==
    /\ pc = "send"
    /\ write_result # "pending"
    /\ i < NumChunks(data_bytes)
    /\ inflight' = inflight + 1
    /\ write_result' = "pending"
    /\ attempted' = Append(attempted, i)
    /\ sent' = sent \o Chunk(data_bytes, i)
    /\ UNCHANGED <<bitmaps, inputs, pc, data_bytes, counted, panic_at, i,
                   any_err>>

\* a loop that gives up at the first failed write
WriteReturnAbort(ok) ==
    /\ pc = "send"
    /\ write_result = "pending"
    /\ inflight' = inflight - 1
    /\ write_result' = IF ok THEN "ok" ELSE "err"
    /\ any_err' = (any_err \/ ~ok)
    /\ i' = i + 1
    /\ pc' = IF ok THEN pc ELSE "done"
    /\ UNCHANGED <<bitmaps, inputs, data_bytes, counted, panic_at,
                   attempted, sent>>

\* .await.is_err(): the write returns; either way the loop goes on
WriteReturn(ok) ==
    /\ pc = "send"
    /\ write_result = "pending"
    /\ inflight' = inflight - 1
    /\ write_result' = IF ok THEN "ok" ELSE "err"
    /\ any_err' = (any_err \/ ~ok)
    /\ i' = i + 1
    /\ UNCHANGED <<bitmaps, inputs, pc, data_bytes, counted, panic_at,
                   attempted, sent>>

\* the loop is exhausted: "Done writing", peripheral.disconnect()
Finish ==
    /\ pc = "send"
    /\ write_result # "pending"
    /\ i >= NumChunks(data_bytes)
    /\ pc' = "done"
    /\ UNCHANGED <<bitmaps, inputs, data_bytes, counted, panic_at, i,
                   inflight, write_result, attempted, any_err, sent>>

Next ==
    \/ \E in \in BitmapInputs : PushBitmap(in, MaxBitmaps)
    \/ \E checks \in BOOLEAN : ToBytes(checks)
    \/ WriteStart
    \/ \E ok \in BOOLEAN : WriteReturn(ok)
    \/ Finish

Spec == Init /\ [][Next]_vars

\* the same steps over the shorter Data
SendNext ==
    \/ \E in \in BitmapInputs : PushBitmap(in, MaxSendBitmaps)
    \/ \E checks \in BOOLEAN : ToBytes(checks)
    \/ WriteStart
    \/ \E ok \in BOOLEAN : WriteReturn(ok)
    \/ Finish

\* the writes are awaited and the loop is finite: each step is taken
FairSpec ==
    /\ Init /\ [][SendNext]_vars
    /\ WF_vars(WriteStart)
    /\ WF_vars(\E ok \in BOOLEAN : WriteReturn(ok))
    /\ WF_vars(Finish)

----------------------------------------------------------------------------
(* Properties *)

\* length of everything before the pixel payload
HeaderLen == Len(Header(HeaderInit))

RECURSIVE PayloadTotal(_)
\* P: the number of pixel-payload bytes to_bytes appends for these bitmaps
PayloadTotal(bs) ==
    IF bs = <<>> THEN 0
    ELSE RowGroup * (Len(Head(bs).data) \div RowGroup) + PayloadTotal(Tail(bs))

RECURSIVE SumBits(_)
\* the OR (= sum) of 1 << k over the distinct bit positions k of S
SumBits(S) ==
    IF S = {} THEN 0
    ELSE LET k == CHOOSE x \in S : TRUE IN 2 ^ k + SumBits(S \ {k})

\* to_bytes has returned Ok
Encoded == pc \in {"send", "done"}

\* every bitmap's data is a whole number of 11-byte row groups
WholeRowGroups == \A k \in 1..Len(bitmaps) : Len(bitmaps[k].data) % RowGroup = 0

\* the bytes of the stream after the pixel payload
TrailingLen == Len(data_bytes) - HeaderLen - PayloadTotal(bitmaps)

\* C1: for at most 8 bitmaps of whole row groups, to_bytes appends exactly
\* (16 - (P mod 16)) mod 16 zero bytes after the P payload bytes, so payload
\* plus padding is a multiple of 16 and nothing is appended when 16 divides P.
C1_PaddingRule ==
    (Encoded /\ Len(bitmaps) <= Slots /\ WholeRowGroups) =>
        /\ TrailingLen = (16 - (PayloadTotal(bitmaps) % 16)) % 16
        /\ (PayloadTotal(bitmaps) + TrailingLen) % 16 = 0
        /\ \A k \in 1..Len(data_bytes) :
              k > HeaderLen + PayloadTotal(bitmaps) => data_bytes[k] = 0

\* C2: the chunks the transmission loop takes from the stream, concatenated
\* in order, are the stream itself, and there are ceil(length / 16) of them
\* (a final partial chunk is handed on, not dropped).
C2_ChunksReproduceStream ==
    pc = "done" =>
        /\ sent = data_bytes
        /\ Len(attempted) = (Len(data_bytes) + ChunkSize - 1) \div ChunkSize

\* C3: to_bytes on more than 8 bitmaps returns an error value: it does not
\* terminate abnormally and it yields no bytes to transmit.
C3_RejectsMoreThanEight ==
    (Len(bitmaps) > Slots /\ pc # "build") =>
        /\ panic_at = "none"
        /\ pc \notin {"send", "done"}
        /\ data_bytes = <<>>

\* the writes so far are chunks 0, 1, 2, ... each once, at most one in flight
InOrderOnce ==
    /\ inflight \in {0, 1}
    /\ attempted = [k \in 1..Len(attempted) |-> k - 1]
    /\ Len(attempted) = i + inflight
    /\ Len(attempted) <= NumChunks(data_bytes)
    /\ pc = "done" => Len(attempted) = NumChunks(data_bytes)

\* C4: chunks are written in increasing index order, one at a time, each
\* exactly once whatever the outcomes of the writes, and a transmission that
\* has begun finishes after the last chunk has been attempted.
C4_Transmission ==
    /\ []InOrderOnce
    /\ (pc = "send") ~> (pc = "done" /\ Len(attempted) = NumChunks(data_bytes))

\* a transmission that finished although an earlier write failed
C4_Witness ==
    /\ pc = "done"
    /\ any_err
    /\ write_result = "ok"
    /\ Len(attempted) >= 5

\* C5: for at most 8 bitmaps, byte 6 of the output is the OR of 1 << i over
\* exactly the slots i whose bitmap has flash set, and byte 7 the same for
\* marquee; the bits of unused slots are 0.
C5_Bitmasks ==
    (Encoded /\ Len(bitmaps) <= Slots) =>
        /\ data_bytes[7] =
              SumBits({k \in 0..(Len(bitmaps) - 1) : bitmaps[k + 1].flash})
        /\ data_bytes[8] =
              SumBits({k \in 0..(Len(bitmaps) - 1) : bitmaps[k + 1].marquee})

\* an encoded Data of 8 bitmaps with both kinds of flag set and unset
C5_Witness ==
    /\ Encoded
    /\ Len(bitmaps) = Slots
    /\ bitmaps[1].flash /\ bitmaps[8].flash /\ ~bitmaps[4].flash
    /\ bitmaps[2].marquee /\ bitmaps[7].marquee /\ ~bitmaps[8].marquee

\* entry k (0-based) of the size table, read as a big-endian u16
SizeTableEntry(k) == data_bytes[17 + 2 * k] * 256 + data_bytes[18 + 2 * k]

\* C6: for at most 8 bitmaps of whole row groups (at most 65535 each), the
\* size table at offsets 16..31 holds, big-endian, data.length / 11 for each
\* used slot and 0 for each unused slot.
C6_SizeTable ==
    (/\ Encoded
     /\ Len(bitmaps) <= Slots
     /\ WholeRowGroups
     /\ \A k \in 1..Len(bitmaps) : Len(bitmaps[k].data) \div RowGroup <= 65535)
    => \A k \in 0..(Slots - 1) :
          IF k < Len(bitmaps)
          THEN SizeTableEntry(k) * RowGroup = Len(bitmaps[k + 1].data)
          ELSE SizeTableEntry(k) = 0

\* an encoded Data with bitmaps of 3, 1 and 0 row groups and unused slots
C6_Witness ==
    /\ Encoded
    /\ Len(bitmaps) = 3
    /\ Len(bitmaps[1].data) = 3 * RowGroup
    /\ Len(bitmaps[2].data) = 0
    /\ Len(bitmaps[3].data) = RowGroup

\* C7: after put_string(s), whatever the previous data, the data has length
\* 11 * n and the k-th block is [0, 0, g0 .. g6, 0, 0] for the 7 glyph rows
\* of the k-th character.
C7_PutString ==
    \A b \in 1..Len(bitmaps) :
        LET s == inputs[b].s
            data == bitmaps[b].data
        IN  /\ Len(data) = 11 * Len(s)
            /\ \A k \in 1..Len(s) :
                  SubSeq(data, 11 * (k - 1) + 1, 11 * k)
                      = <<0, 0>> \o get_char_data(s[k]) \o <<0, 0>>

\* a bitmap that held other data before put_string of a 3-character string
C7_Witness ==
    \E b \in 1..Len(bitmaps) :
        /\ inputs[b].prev # <<>>
        /\ Len(inputs[b].s) = 3
        /\ Len(bitmaps[b].data) = 33

\* the message the end-to-end scenario expects
ExpectedMessage ==
    Magic \o <<0>> \o <<0>> \o <<84, 0, 0, 0, 0, 0, 0, 0>>
          \o <<0, 1>> \o Zeros(14) \o Zeros(32)
          \o <<0, 0>> \o get_char_data("A") \o <<0, 0>>
          \o Zeros(5)

\* C8: one bitmap, flash and marquee off, mode Fixed, speed 5, one glyph
\* block: to_bytes yields exactly the 80-byte message (64-byte header, 11
\* payload bytes, 5 zero bytes), which splits into 5 chunks of 16.
C8_EndToEnd ==
    (/\ Encoded
     /\ bitmaps = <<[flash |-> FALSE, marquee |-> FALSE, mode |-> Fixed,
                     speed |-> 5, data |-> CharRows("A")]>>)
    => /\ Len(data_bytes) = 80
       /\ data_bytes = ExpectedMessage
       /\ NumChunks(data_bytes) = 5

\* C9: the counter from which to_bytes computes the padding equals the true
\* number P of payload bytes appended, also for P > 255.
C9_CounterIsTotal ==
    Encoded => counted = PayloadTotal(bitmaps)

\* C10: every header byte and every payload byte of the stream lies in a
\* chunk handed to the transport; only trailing padding is left unwritten.
C10_PayloadTransmitted ==
    (pc = "done" /\ Len(bitmaps) <= Slots) =>
        /\ Len(sent) >= HeaderLen + PayloadTotal(bitmaps)
        /\ SubSeq(sent, 1, HeaderLen + PayloadTotal(bitmaps))
              = SubSeq(data_bytes, 1, HeaderLen + PayloadTotal(bitmaps))

====
